---- MODULE Spec2Model ----
(***************************************************************************)
(* A model of @divmain/sat (src/src/index.ts): Boolean expressions built   *)
(* from and/or/not, the variable extractor, the evaluator, the brute-force *)
(* enumerator and the backtracking search with its selection strategy.     *)
(*                                                                         *)
(* Encoding of the JavaScript values:                                      *)
(*   - a Variable (a string) is the node <<"var", name>>;                  *)
(*   - {and: [...]} is <<"and", <<operands>>>>, {or: [...]} is             *)
(*     <<"or", <<operands>>>>, {not: x} is <<"not", x>>;                   *)
(*   - a VariableAssignments object is a function from its own keys to     *)
(*     numbers; reading a missing key gives undefined;                     *)
(*   - an object reference is a positive integer into heap, null is 0.     *)
(***************************************************************************)
EXTENDS Integers, Sequences, FiniteSets, TLC

VARIABLES
    expr,       \* the expression of the current query
    asg,        \* an assignment of expr's variables handed to the pure operations
    call,       \* the operation the client has invoked
    out,        \* what a pure operation returned
    strategy,   \* selectNextVar of the running getSolution: "default" or "custom"
    seeds,      \* the initialAssignments object the caller passed
    heap,       \* the live VariableAssignments objects, by reference
    stack,      \* the dpllSolution activations, innermost last
    ret,        \* the value the innermost finished dpllSolution returned
    result,     \* what getSolution returned (a reference, or null)
    first,      \* what the previous getSolution call on expr returned (its content)
    log         \* what the running getSolution has done: the dpllSolution calls made,
                \* the selectNextVar calls made and the arguments of the last one

vars == <<expr, asg, call, out, strategy, seeds, heap, stack, ret, result, first, log>>

----------------------------------------------------------------------------
(* enum Value *)
ValueUNSET == -1
ValueFALSE == 0
ValueTRUE == 1

(* JavaScript's undefined, as read from a key an object does not have. *)
Undefined == -2
(* The outcome of `throw new Error('Invalid BooleanExpr')`. *)
Thrown == -3
(* The null reference. *)
Null == 0

----------------------------------------------------------------------------
(* Expression constructors. *)
Var(name) == <<"var", name>>
and(exprs) == <<"and", exprs>>
or(exprs) == <<"or", exprs>>
not(e) == <<"not", e>>
(* implies with the negation on the consequent. *)
impliesConverse(a, b) == or(<<a, not(b)>>)
implies(a, b) == or(<<not(a), b>>)
xor(a, b) == or(<<and(<<a, not(b)>>), and(<<not(a), b>>)>>)

isVariable(x) == x[1] = "var"

(* Property access on an assignment object. *)
Get(o, k) == IF k \in DOMAIN o THEN o[k] ELSE Undefined
Put(o, k, v) == [x \in (DOMAIN o) \cup {k} |-> IF x = k THEN v ELSE o[x]]
(* {...a, ...b} *)
Spread(a, b) == [x \in (DOMAIN a) \cup (DOMAIN b) |-> IF x \in DOMAIN b THEN b[x] ELSE a[x]]
EmptyObject == <<>>

RECURSIVE fromEntries(_)
(* Object.fromEntries over a sequence of <<key, value>>: a later entry wins. *)
fromEntries(entries) ==
    IF entries = <<>> THEN EmptyObject
    ELSE LET n == Len(entries)
         IN  Put(fromEntries(SubSeq(entries, 1, n - 1)), entries[n][1], entries[n][2])

(* SetAdd as it would be over an Array: push without the membership test. *)
SetAddNoDedupe(variables, name) == Append(variables, name)

(* Set.prototype.add on an insertion-ordered Set, kept as a duplicate-free sequence. *)
SetAdd(variables, name) ==
    IF \E i \in 1..Len(variables) : variables[i] = name
    THEN variables
    ELSE Append(variables, name)

RECURSIVE getVariablesInto(_, _), getVariablesOfList(_, _)
(* getVariables(expr, variables): the traversal with its accumulator threaded through. *)
getVariablesInto(e, variables) ==
    IF e[1] = "and" \/ e[1] = "or" THEN getVariablesOfList(e[2], variables)
    ELSE IF e[1] = "not" THEN
        IF isVariable(e[2]) THEN SetAdd(variables, e[2][2])
        ELSE getVariablesInto(e[2], variables)
    ELSE variables
(* the for-of loop over expr.and / expr.or *)
getVariablesOfList(subExprs, variables) ==
    IF subExprs = <<>> THEN variables
    ELSE LET subExpr == Head(subExprs)
             next == IF isVariable(subExpr) THEN SetAdd(variables, subExpr[2])
                     ELSE getVariablesInto(subExpr, variables)
         IN  getVariablesOfList(Tail(subExprs), next)

(* getVariables with the Set read back to front. *)
getVariablesReversed(e) ==
    LET variables == getVariablesInto(e, <<>>)
    IN  [i \in 1..Len(variables) |-> variables[Len(variables) + 1 - i]]

getVariables(e) == getVariablesInto(e, <<>>)

RECURSIVE expressionValue(_, _), every(_, _), some(_, _)
(* expressionValue: a Value, or Thrown when a malformed node is reached. *)
expressionValue(e, assignment) ==
    IF isVariable(e) THEN Get(assignment, e[2])
    ELSE IF e[1] = "and" THEN
        LET r == every(e[2], assignment)
        IN  IF r = Thrown THEN Thrown ELSE IF r = ValueTRUE THEN ValueTRUE ELSE ValueFALSE
    ELSE IF e[1] = "or" THEN
        LET r == some(e[2], assignment)
        IN  IF r = Thrown THEN Thrown ELSE IF r = ValueTRUE THEN ValueTRUE ELSE ValueFALSE
    ELSE IF e[1] = "not" THEN
        LET v == expressionValue(e[2], assignment)
        IN  IF v = Thrown THEN Thrown ELSE IF v = ValueFALSE THEN ValueTRUE ELSE ValueFALSE
    ELSE Thrown
(* Array.prototype.every with the callback `expressionValue(subExpr) === Value.TRUE`:
   stops at the first operand that is not TRUE. *)
every(subExprs, assignment) ==
    IF subExprs = <<>> THEN ValueTRUE
    ELSE LET v == expressionValue(Head(subExprs), assignment)
         IN  IF v = Thrown THEN Thrown
             ELSE IF v = ValueTRUE THEN every(Tail(subExprs), assignment)
             ELSE ValueFALSE
(* some with the quantifier of every. *)
someAsEvery(subExprs, assignment) == every(subExprs, assignment)

(* Array.prototype.some with the same callback: stops at the first TRUE operand. *)
some(subExprs, assignment) ==
    IF subExprs = <<>> THEN ValueFALSE
    ELSE LET v == expressionValue(Head(subExprs), assignment)
         IN  IF v = Thrown THEN Thrown
             ELSE IF v = ValueTRUE THEN ValueTRUE
             ELSE some(Tail(subExprs), assignment)

----------------------------------------------------------------------------
(* The brute-force enumerator. *)

(* sequence(len): [0, 1, ..., len - 1] *)
sequence(len) == [i \in 1..len |-> i - 1]

RECURSIVE toString2(_)
(* Number.prototype.toString(2): the binary digits, most significant first,
   without leading zeros; "0" for zero. *)
toString2(num) == IF num < 2 THEN <<num>> ELSE Append(toString2(num \div 2), num % 2)

RECURSIVE padStart(_, _, _)
(* String.prototype.padStart(targetLength, fill): pads on the left up to
   targetLength and leaves a string that is already long enough alone. *)
padStart(str, targetLength, fill) ==
    IF Len(str) >= targetLength THEN str
    ELSE padStart(<<fill>> \o str, targetLength, fill)

(* KeyAt counting the variables from the end. *)
KeyAtReversed(variables, idx) ==
    IF idx <= Len(variables) THEN variables[Len(variables) + 1 - idx] ELSE "undefined"

(* variables[idx] used as a property key: an index past the end reads
   undefined, which becomes the key "undefined". *)
KeyAt(variables, idx) == IF idx <= Len(variables) THEN variables[idx] ELSE "undefined"

(* One element of allPossibleAssignments: the object built from num. *)
AssignmentOf(variables, num) ==
    LET numVars == Len(variables)
        binaryStr == padStart(toString2(num), numVars, 0)
        boolAssignments == [i \in 1..Len(binaryStr) |->
                                IF binaryStr[i] # 0 THEN ValueTRUE ELSE ValueFALSE]
    IN  fromEntries([i \in 1..Len(boolAssignments) |->
                        <<KeyAt(variables, i), boolAssignments[i]>>])

allPossibleAssignments(variables) ==
    LET nums == sequence(2 ^ Len(variables))
    IN  [i \in 1..Len(nums) |-> AssignmentOf(variables, nums[i])]

RECURSIVE Filter(_, _)
(* the loop of bruteForceAllSolutions: keeps, in order, the assignments under
   which the expression's value is TRUE *)
Filter(e, assignments) ==
    IF assignments = <<>> THEN <<>>
    ELSE LET rest == Filter(e, Tail(assignments))
             v == expressionValue(e, Head(assignments))
         IN  IF v = ValueTRUE THEN <<Head(assignments)>> \o rest ELSE rest

bruteForceAllSolutions(e) == Filter(e, allPossibleAssignments(getVariables(e)))

(* whether the loop of bruteForceAllSolutions is left by the evaluator's throw:
   every assignment is evaluated, so one throwing evaluation is enough *)
bruteForceThrows(e) ==
    LET assignments == allPossibleAssignments(getVariables(e))
    IN  \E i \in 1..Len(assignments) : expressionValue(e, assignments[i]) = Thrown

----------------------------------------------------------------------------
(* The selection strategy and the initial assignment. *)

(* Array.prototype.find: the first element meeting the predicate, as an index
   (0 when there is none). *)
FindUnset(variables, assignments) ==
    IF \E i \in 1..Len(variables) : Get(assignments, variables[i]) = ValueUNSET
    THEN CHOOSE i \in 1..Len(variables) :
            /\ Get(assignments, variables[i]) = ValueUNSET
            /\ \A j \in 1..(i - 1) : Get(assignments, variables[j]) # ValueUNSET
    ELSE 0

(* Truthiness of the string find returned: undefined and "" are falsy. *)
TruthyVar(variables, i) == i # 0 /\ variables[i] # ""

(* defaultSelect: <<variable, checkTrueFirst>>, or <<>> for null *)
defaultSelect(variables, assignments) ==
    LET i == FindUnset(variables, assignments)
    IN  IF TruthyVar(variables, i) THEN <<variables[i], FALSE>> ELSE <<>>

getInitialAssignments(e) ==
    LET variables == getVariables(e)
    IN  fromEntries([i \in 1..Len(variables) |-> <<variables[i], ValueUNSET>>])

----------------------------------------------------------------------------
(* The inputs. *)

(* the largest number of nodes (operators and variable leaves) of an
   enumerated expression handed to the pure operations *)
MaxNodes == 4
(* the same for the expressions handed to getSolution *)
MaxSearchNodes == 3
(* largest number of nodes of the expression the operands of implies and xor
   are taken from *)
MaxOperandNodes == 4

(* the variable names the enumerated expressions draw on *)
VarNames == {"", "a", "b"}

RECURSIVE NodesOfSize(_), ListsOfSize(_)
(* every operand (variable or expression) made of exactly n nodes *)
NodesOfSize(n) ==
    IF n <= 0 THEN {}
    ELSE (IF n = 1 THEN {Var(v) : v \in VarNames} ELSE {})
         \cup {and(l) : l \in ListsOfSize(n - 1)}
         \cup {or(l) : l \in ListsOfSize(n - 1)}
         \cup {not(x) : x \in NodesOfSize(n - 1)}
(* every operand list whose operands hold s nodes in all *)
ListsOfSize(s) ==
    IF s = 0 THEN {<<>>}
    ELSE UNION {{<<x>> \o l : x \in NodesOfSize(k), l \in ListsOfSize(s - k)} : k \in 1..s}

ExprsUpTo(n) == {e \in UNION {NodesOfSize(k) : k \in 1..n} : ~isVariable(e)}

(* expressions of the repository's tests *)
ComplexExpr ==
    and(<<not(Var("b")), or(<<Var("a"), Var("b")>>), xor(Var("b"), Var("c")),
          implies(Var("c"), and(<<Var("d"), Var("e")>>))>>)
TestExprs ==
    {and(<<Var("a"), Var("b")>>), or(<<Var("a"), Var("b")>>), not(Var("b")),
     implies(Var("a"), Var("b")), xor(Var("a"), Var("b"))}

PureExprs == ExprsUpTo(MaxNodes) \cup TestExprs \cup {ComplexExpr}
SearchExprs == ExprsUpTo(MaxSearchNodes) \cup TestExprs

Range(f) == {f[i] : i \in DOMAIN f}
SubsetsOf(S) == SUBSET S

(* the initialAssignments a caller may pass for e: some of e's variables,
   each bound to FALSE or TRUE (the empty object stands for an omitted one too:
   spreading undefined adds nothing) *)
SeedsOf(e) ==
    UNION {[K -> {ValueFALSE, ValueTRUE}] : K \in SubsetsOf(Range(getVariables(e)))}

(* the assignments of e's variables handed to the pure operations *)
AssignmentsOf(e) == [Range(getVariables(e)) -> {ValueUNSET, ValueFALSE, ValueTRUE}]

----------------------------------------------------------------------------
(* The backtracking search as a machine: one frame per dpllSolution call. *)

Frame(ref) ==
    [assignments |-> ref, pc |-> "enter", unassignedVar |-> "", checkTrueFirst |-> FALSE,
     newAssignments |-> Null]

Top == stack[Len(stack)]
Pop == SubSeq(stack, 1, Len(stack) - 1)

(* LegalChoices of a strategy that may also select a variable already bound. *)
AnyChoices(variables, assignments) ==
    {<<variables[i], b>> : i \in 1..Len(variables), b \in BOOLEAN}
        \cup {x \in {<<>>} : \A i \in 1..Len(variables) :
                                Get(assignments, variables[i]) # ValueUNSET}

(* what a strategy that honours the selectNextVar contract may return *)
LegalChoices(variables, assignments) ==
    LET unset == {i \in 1..Len(variables) : Get(assignments, variables[i]) = ValueUNSET}
    IN  IF unset = {} THEN {<<>>}
        ELSE {<<variables[i], b>> : i \in unset, b \in BOOLEAN}

(* the possible results of selectNextVar(variables, assignments) *)
selectNextVar(variables, assignments) ==
    IF strategy = "default" THEN {defaultSelect(variables, assignments)}
    ELSE LegalChoices(variables, assignments)

(* truthiness of the number expressionValue returned *)
Truthy(v) == v # 0 /\ v # Undefined

(* FirstValue ignoring the preference. *)
FirstValueAlwaysFalse(checkTrueFirst) == ValueFALSE
(* SecondValue repeating the first value. *)
SecondValueSame(checkTrueFirst) == IF checkTrueFirst THEN ValueTRUE ELSE ValueFALSE

(* FirstValue trying the value the strategy did not prefer. *)
FirstValueInverted(checkTrueFirst) == IF checkTrueFirst THEN ValueFALSE ELSE ValueTRUE

(* the value tried first and the value tried second *)
FirstValue(checkTrueFirst) == IF checkTrueFirst THEN ValueTRUE ELSE ValueFALSE
SecondValue(checkTrueFirst) == IF checkTrueFirst THEN ValueFALSE ELSE ValueTRUE

(* CopyRef without the copy: `newAssignments = assignments`. *)
NoCopy(ref, depth) == ref

(* the reference of the object `{ ...assignments }` creates in the dpllSolution
   call at the given depth: a new object, never the one spread *)
CopyRef(ref, depth) == depth + 1

(* MergedInitial with the two spreads in the other order. *)
MergedInitialSwapped(e, initialAssignments) ==
    Spread(initialAssignments, getInitialAssignments(e))

(* { ...getInitialAssignments(expr), ...initialAssignments } *)
MergedInitial(e, initialAssignments) == Spread(getInitialAssignments(e), initialAssignments)

(* the heap without the object a returning frame created, unless it is the
   object being returned *)
Release(h, ref, returned) ==
    IF ref = Null \/ ref = returned THEN h
    ELSE [r \in (DOMAIN h) \ {ref} |-> h[r]]

Outcome(r, h) == IF r = Null THEN <<"null">> ELSE <<"object", h[r]>>

(* the log of a getSolution call that has made n dpllSolution calls and no
   selectNextVar call *)
NoCalls(n) == [nodes |-> n, calls |-> 0, variables |-> <<>>, assignments |-> Null]
(* the log after one more selectNextVar(variables, assignments) *)
Called(l, variables, ref) ==
    [l EXCEPT !.calls = @ + 1, !.variables = variables, !.assignments = ref]

Idle ==
    /\ asg = EmptyObject /\ call = "none" /\ out = <<>>
    /\ strategy = "default" /\ seeds = EmptyObject
    /\ heap = <<>> /\ stack = <<>> /\ ret = <<>> /\ result = Null /\ first = <<>>
    /\ log = NoCalls(0)

Init == expr \in SearchExprs /\ Idle

(* getSolution(expr, initialAssignments, selectNextVar) up to its call of dpllSolution *)
GetSolution(initialAssignments, strat) ==
    /\ call = "none"
    /\ call' = "getSolution"
    /\ strategy' = strat
    /\ seeds' = initialAssignments
    /\ heap' = (1 :> MergedInitial(expr, initialAssignments))
    /\ stack' = <<Frame(1)>>
    /\ ret' = <<>>
    /\ result' = Null
    /\ log' = NoCalls(1)
    /\ UNCHANGED <<expr, asg, out, first>>

(* dpllSolution, lines 150-155: the strategy returns null and the assignment is
   evaluated *)
DpllLeaf ==
    /\ call = "getSolution" /\ stack # <<>> /\ Top.pc = "enter"
    /\ LET assignments == heap[Top.assignments]
           variables == getVariables(expr)
       IN  /\ <<>> \in selectNextVar(variables, assignments)
           /\ LET v == expressionValue(expr, assignments)
              IN  IF v = Thrown
                  THEN /\ call' = "threw"
                       /\ stack' = <<>>
                       /\ ret' = <<>>
                  ELSE /\ ret' = <<IF Truthy(v) THEN Top.assignments ELSE Null>>
                       /\ stack' = Pop
                       /\ call' = call
           /\ log' = Called(log, variables, Top.assignments)
    /\ UNCHANGED <<expr, asg, out, strategy, seeds, heap, result, first>>

(* dpllSolution, lines 156-161: copy the assignment, bind the selected variable
   to the preferred value, recurse *)
DpllFirstBranch ==
    /\ call = "getSolution" /\ stack # <<>> /\ Top.pc = "enter"
    /\ LET assignments == heap[Top.assignments]
           variables == getVariables(expr)
       IN  \E nextVar \in selectNextVar(variables, assignments) :
            /\ nextVar # <<>>
            /\ LET unassignedVar == nextVar[1]
                   checkTrueFirst == nextVar[2]
                   newAssignments == CopyRef(Top.assignments, Len(stack))
               IN  /\ heap' = (newAssignments :>
                                 Put(assignments, unassignedVar, FirstValue(checkTrueFirst)))
                               @@ heap
                   /\ stack' = Pop \o
                        <<[Top EXCEPT !.pc = "first", !.unassignedVar = unassignedVar,
                                      !.checkTrueFirst = checkTrueFirst,
                                      !.newAssignments = newAssignments],
                          Frame(newAssignments)>>
                   /\ log' = [Called(log, variables, Top.assignments)
                                EXCEPT !.nodes = @ + 1]
    /\ UNCHANGED <<expr, asg, call, out, strategy, seeds, ret, result, first>>

(* dpllSolution, lines 162-164: the first branch found a solution *)
DpllFirstFound ==
    /\ call = "getSolution" /\ stack # <<>> /\ Top.pc = "first"
    /\ ret # <<>> /\ ret[1] # Null
    /\ stack' = Pop
    /\ heap' = Release(heap, Top.newAssignments, ret[1])
    /\ UNCHANGED <<expr, asg, call, out, strategy, seeds, ret, result, first, log>>

(* dpllSolution, lines 166-167: the first branch failed; rebind the selected
   variable in newAssignments to the other value, recurse *)
DpllSecondBranch ==
    /\ call = "getSolution" /\ stack # <<>> /\ Top.pc = "first"
    /\ ret = <<Null>>
    /\ heap' = [heap EXCEPT ![Top.newAssignments] =
                    Put(@, Top.unassignedVar, SecondValue(Top.checkTrueFirst))]
    /\ stack' = Pop \o <<[Top EXCEPT !.pc = "second"], Frame(Top.newAssignments)>>
    /\ ret' = <<>>
    /\ log' = [log EXCEPT !.nodes = @ + 1]
    /\ UNCHANGED <<expr, asg, call, out, strategy, seeds, result, first>>

(* dpllSolution, lines 168-172: return what the second branch returned *)
DpllSecondReturn ==
    /\ call = "getSolution" /\ stack # <<>> /\ Top.pc = "second"
    /\ ret # <<>>
    /\ stack' = Pop
    /\ heap' = Release(heap, Top.newAssignments, ret[1])
    /\ UNCHANGED <<expr, asg, call, out, strategy, seeds, ret, result, first, log>>

(* getSolution, line 182: return what the root dpllSolution returned *)
GetSolutionReturn ==
    /\ call = "getSolution" /\ stack = <<>> /\ ret # <<>>
    /\ result' = ret[1]
    /\ call' = "returned"
    /\ ret' = <<>>
    /\ UNCHANGED <<expr, asg, out, strategy, seeds, heap, stack, first, log>>

(* the caller keeps the outcome of the getSolution call that has ended,
   returned or thrown (call = "threw" is left by dpllSolution only), and is
   free to call again on the same expression, with any initialAssignments and
   any strategy *)
CallAgain ==
    /\ call \in {"returned", "threw"}
    /\ first' = <<seeds, strategy,
                  IF call = "threw" THEN <<"threw">> ELSE Outcome(result, heap)>>
    /\ call' = "none"
    /\ strategy' = "default"
    /\ seeds' = EmptyObject
    /\ heap' = <<>>
    /\ result' = Null
    /\ log' = NoCalls(0)
    /\ UNCHANGED <<expr, asg, out, stack, ret>>

Next ==
    \/ \E initialAssignments \in SeedsOf(expr), strat \in {"default", "custom"} :
            GetSolution(initialAssignments, strat)
    \/ DpllLeaf
    \/ DpllFirstBranch
    \/ DpllFirstFound
    \/ DpllSecondBranch
    \/ DpllSecondReturn
    \/ GetSolutionReturn
    \/ CallAgain

Spec == Init /\ [][Next]_vars

----------------------------------------------------------------------------
(* The pure operations, each applied once to an expression and an assignment. *)

PureIdle ==
    /\ call = "none" /\ out = <<>>
    /\ strategy = "default" /\ seeds = EmptyObject
    /\ heap = <<>> /\ stack = <<>> /\ ret = <<>> /\ result = Null /\ first = <<>>
    /\ log = NoCalls(0)

PureInit == expr \in PureExprs /\ asg \in AssignmentsOf(expr) /\ PureIdle

ExtractVariables ==
    /\ call = "none"
    /\ call' = "getVariables"
    /\ out' = getVariables(expr)
    /\ UNCHANGED <<expr, asg, strategy, seeds, heap, stack, ret, result, first, log>>

(* expressionValue on the expression or on one of its variables *)
Evaluate(target) ==
    /\ call = "none"
    /\ call' = IF expressionValue(target, asg) = Thrown
               THEN "expressionValueThrew" ELSE "expressionValue"
    /\ out' = <<target, expressionValue(target, asg)>>
    /\ UNCHANGED <<expr, asg, strategy, seeds, heap, stack, ret, result, first, log>>

BruteForce ==
    /\ call = "none"
    /\ IF bruteForceThrows(expr)
       THEN call' = "bruteForceAllSolutionsThrew" /\ out' = <<>>
       ELSE call' = "bruteForceAllSolutions" /\ out' = bruteForceAllSolutions(expr)
    /\ UNCHANGED <<expr, asg, strategy, seeds, heap, stack, ret, result, first, log>>

DefaultSelect ==
    /\ call = "none"
    /\ call' = "defaultSelect"
    /\ out' = defaultSelect(getVariables(expr), asg)
    /\ UNCHANGED <<expr, asg, strategy, seeds, heap, stack, ret, result, first, log>>

(* a pure operation has ended, with a value or with a throw, and the caller is
   free to call again; nothing is recorded of it but what it returned *)
GoOn ==
    /\ call \in {"getVariables", "expressionValue", "bruteForceAllSolutions",
                  "defaultSelect", "expressionValueThrew", "bruteForceAllSolutionsThrew"}
    /\ call' = "none"
    /\ UNCHANGED <<expr, asg, out, strategy, seeds, heap, stack, ret, result, first, log>>

PureNext ==
    \/ ExtractVariables
    \/ \E target \in {expr} \cup {Var(v) : v \in Range(getVariables(expr))} : Evaluate(target)
    \/ BruteForce
    \/ DefaultSelect

PureSpec == PureInit /\ [][PureNext]_vars

----------------------------------------------------------------------------
(* The derived constructors, each applied once to two operands and the result
   evaluated under a complete assignment.  The operands are any two nodes of
   expr: variables or sub-expressions. *)

RECURSIVE Operands(_)
Operands(e) ==
    IF isVariable(e) THEN {e}
    ELSE IF e[1] = "not" THEN {e} \cup Operands(e[2])
    ELSE {e} \cup UNION {Operands(e[2][i]) : i \in DOMAIN e[2]}

(* the complete assignments of e as the library builds them: the elements of
   allPossibleAssignments over e's variables *)
CompleteAssignmentsOf(e) == Range(allPossibleAssignments(getVariables(e)))

DerivedInit ==
    /\ expr \in ExprsUpTo(MaxOperandNodes)
    /\ asg \in CompleteAssignmentsOf(expr)
    /\ PureIdle

Implies(a, b) ==
    /\ call = "none"
    /\ call' = "implies"
    /\ out' = <<a, b, implies(a, b), expressionValue(implies(a, b), asg)>>
    /\ UNCHANGED <<expr, asg, strategy, seeds, heap, stack, ret, result, first, log>>

Xor(a, b) ==
    /\ call = "none"
    /\ call' = "xor"
    /\ out' = <<a, b, xor(a, b), expressionValue(xor(a, b), asg)>>
    /\ UNCHANGED <<expr, asg, strategy, seeds, heap, stack, ret, result, first, log>>

DerivedNext ==
    \/ \E a \in Operands(expr), b \in Operands(expr) : Implies(a, b)
    \/ \E a \in Operands(expr), b \in Operands(expr) : Xor(a, b)

DerivedSpec == DerivedInit /\ [][DerivedNext]_vars

----------------------------------------------------------------------------
(* The core on expressions that hold a malformed node: an object with none of
   the keys and, or, not (such as {}), which is neither a string. *)

Malformed == <<"malformed", <<>>>>

(* the largest number of nodes of an expression with malformed nodes *)
MaxMalformedNodes == 4

RECURSIVE Subst(_, _)
(* e with every occurrence of the variable name replaced by a malformed node *)
Subst(e, name) ==
    IF isVariable(e) THEN (IF e[2] = name THEN Malformed ELSE e)
    ELSE IF e[1] = "not" THEN not(Subst(e[2], name))
    ELSE <<e[1], [i \in DOMAIN e[2] |-> Subst(e[2][i], name)]>>

MalformedExprs ==
    {Subst(e, "b") : e \in {x \in ExprsUpTo(MaxMalformedNodes) :
                                \E i \in 1..Len(getVariables(x)) : getVariables(x)[i] = "b"}}

MalformedInit == expr \in MalformedExprs /\ asg \in AssignmentsOf(expr) /\ PureIdle

MalformedNext ==
    \/ Evaluate(expr)
    \/ BruteForce
    \/ \E initialAssignments \in SeedsOf(expr), strat \in {"default", "custom"} :
            GetSolution(initialAssignments, strat)
    \/ DpllLeaf
    \/ DpllFirstBranch
    \/ DpllFirstFound
    \/ DpllSecondBranch
    \/ DpllSecondReturn
    \/ GetSolutionReturn
    \/ CallAgain
    \/ GoOn

MalformedSpec == MalformedInit /\ [][MalformedNext]_vars

----------------------------------------------------------------------------
(* Reference notions the properties are stated with: the variables that occur
   in an expression, its leaves in pre-order, and the truth of an expression
   under a total assignment in ordinary two-valued logic. *)

RECURSIVE Leaves(_), LeavesOfList(_)
Leaves(e) ==
    IF isVariable(e) THEN <<e[2]>>
    ELSE IF e[1] = "not" THEN Leaves(e[2])
    ELSE LeavesOfList(e[2])
LeavesOfList(l) == IF l = <<>> THEN <<>> ELSE Leaves(Head(l)) \o LeavesOfList(Tail(l))

VarsOf(e) == Range(Leaves(e))

FirstIndex(s, x) == CHOOSE i \in 1..Len(s) : s[i] = x /\ \A j \in 1..(i - 1) : s[j] # x

RECURSIVE Holds(_, _)
Holds(e, a) ==
    IF isVariable(e) THEN a[e[2]] = ValueTRUE
    ELSE IF e[1] = "and" THEN \A i \in 1..Len(e[2]) : Holds(e[2][i], a)
    ELSE IF e[1] = "or" THEN \E i \in 1..Len(e[2]) : Holds(e[2][i], a)
    ELSE ~Holds(e[2], a)

IsBit(v) == v = ValueFALSE \/ v = ValueTRUE
Complete(e, a) == \A v \in VarsOf(e) : v \in DOMAIN a /\ IsBit(a[v])
TotalAssignments(V) == [V -> {ValueFALSE, ValueTRUE}]
Extends(a, s) == \A v \in DOMAIN s : v \in DOMAIN a /\ a[v] = s[v]

(* the integer whose binary form, most significant bit first, is the values a
   gives to variables[1], variables[2], ... *)
RECURSIVE Code(_, _)
Code(a, variables) ==
    IF variables = <<>> THEN 0
    ELSE LET n == Len(variables)
         IN  2 * Code(a, SubSeq(variables, 1, n - 1)) + (IF a[variables[n]] = ValueTRUE THEN 1 ELSE 0)

----------------------------------------------------------------------------
(* C1: once getSolution(expr) has returned (no initialAssignments, default or
   any legal strategy), the result is null exactly when
   bruteForceAllSolutions(expr) is empty, and otherwise it equals one of the
   elements of bruteForceAllSolutions(expr). *)
C1_SolutionIsBruteForceMember ==
    (call = "returned" /\ seeds = EmptyObject) =>
        LET all == bruteForceAllSolutions(expr)
        IN  /\ (result = Null) <=> (all = <<>>)
            /\ result # Null => \E i \in 1..Len(all) : all[i] = heap[result]

(* C2: with some variables seeded and a strategy that honours the contract, a
   non-null result binds every variable of the expression to TRUE or FALSE and
   makes the expression true, and a null result means that no total assignment
   extending the seeds makes it true. *)
C2_SeededSearchSoundAndComplete ==
    (call = "returned" /\ strategy = "custom") =>
        /\ result # Null => Complete(expr, heap[result]) /\ Holds(expr, heap[result])
        /\ result = Null =>
             \A a \in TotalAssignments(VarsOf(expr)) : Extends(a, seeds) => ~Holds(expr, a)

(* C2 witness: a seeded search under a legal strategy returned null although
   the expression is satisfiable without the seeds. *)
C2_Witness ==
    /\ call = "returned" /\ strategy = "custom" /\ seeds # EmptyObject /\ result = Null
    /\ \E a \in TotalAssignments(VarsOf(expr)) : Holds(expr, a)
    /\ Cardinality(VarsOf(expr)) >= 2

(* C3: what bruteForceAllSolutions returns is, as a set and without
   duplicates, exactly the total TRUE/FALSE assignments of the extracted
   variables under which the expression is true (empty when unsatisfiable). *)
C3_BruteForceIsExactlyTheSatisfying ==
    call = "bruteForceAllSolutions" =>
        /\ Range(out) = {a \in TotalAssignments(Range(getVariables(expr))) : Holds(expr, a)}
        /\ Cardinality(Range(out)) = Len(out)

(* C4: bruteForceAllSolutions lists its solutions in strictly increasing order
   of the integer that their values encode over the extraction-ordered
   variables, most significant bit first (false before true, lexicographically). *)
C4_BruteForceOrder ==
    call = "bruteForceAllSolutions" =>
        LET variables == getVariables(expr)
        IN  /\ \A i \in 1..Len(out) : \A k \in 1..Len(variables) :
                 variables[k] \in DOMAIN out[i] /\ IsBit(out[i][variables[k]])
            /\ \A i, j \in 1..Len(out) :
                 i < j => Code(out[i], variables) < Code(out[j], variables)

(* C4 witness: at least three solutions over at least two variables were listed. *)
C4_Witness ==
    /\ call = "bruteForceAllSolutions" /\ Len(out) >= 3 /\ Len(getVariables(expr)) >= 2
    /\ getVariables(expr)[1] = "b"

(* C5: two getSolution calls on the same expression without initialAssignments,
   each under some legal strategy, are both null or both return an assignment
   under which the expression is true. *)
C5_StrategyInvariance ==
    (call = "returned" /\ first # <<>> /\ seeds = EmptyObject /\ first[1] = EmptyObject
        /\ strategy = "custom" /\ first[2] = "custom") =>
        /\ (result = Null) <=> (first[3] = <<"null">>)
        /\ result # Null =>
             /\ Complete(expr, heap[result]) /\ Holds(expr, heap[result])
             /\ Complete(expr, first[3][2]) /\ Holds(expr, first[3][2])

(* C5 witness: two legal strategies returned different satisfying assignments. *)
C5_Witness ==
    /\ call = "returned" /\ first # <<>> /\ seeds = EmptyObject /\ first[1] = EmptyObject
    /\ strategy = "custom" /\ first[2] = "custom"
    /\ result # Null /\ first[3] # <<"null">> /\ first[3][2] # heap[result]

(* C6: and() is true under the empty assignment and or() is false, in both query
   modes: bruteForceAllSolutions(and()) is the one assignment that binds nothing
   and getSolution(and()) is the empty assignment; bruteForceAllSolutions(or())
   is empty and getSolution(or()) is null. *)
C6_ZeroOperandExpressions ==
    (call = "returned" /\ seeds = EmptyObject) =>
        /\ expr = and(<<>>) =>
             /\ result # Null /\ heap[result] = EmptyObject
             /\ bruteForceAllSolutions(expr) = <<EmptyObject>>
        /\ expr = or(<<>>) =>
             /\ result = Null
             /\ bruteForceAllSolutions(expr) = <<>>

(* C7: defaultSelect returns null only when no variable of the list is Unset,
   and otherwise the first Unset variable in list order with false as the value
   to try first. *)
C7_DefaultSelectContract ==
    call = "defaultSelect" =>
        LET variables == getVariables(expr)
            unset == {i \in 1..Len(variables) : asg[variables[i]] = ValueUNSET}
        IN  IF unset = {} THEN out = <<>>
            ELSE out = <<variables[CHOOSE i \in unset : \A j \in unset : i <= j], FALSE>>

(* C8: the root assignment has every seeded variable at its seeded value and
   every other variable Unset; every search node, every returned reference and
   the final result keep the seeded values; a node's copy differs from the
   node's own assignment only in the selected variable, which was Unset there. *)
C8_SeedsArePreserved ==
    /\ stack # <<>> =>
         heap[stack[1].assignments] =
            [v \in VarsOf(expr) |-> IF v \in DOMAIN seeds THEN seeds[v] ELSE ValueUNSET]
    /\ \A d \in 1..Len(stack) :
         /\ Extends(heap[stack[d].assignments], seeds)
         /\ stack[d].pc # "enter" =>
              /\ heap[stack[d].assignments][stack[d].unassignedVar] = ValueUNSET
              /\ stack[d].unassignedVar \notin DOMAIN seeds
              /\ \A k \in DOMAIN heap[stack[d].assignments] :
                    k # stack[d].unassignedVar =>
                        heap[stack[d].newAssignments][k] = heap[stack[d].assignments][k]
    /\ (ret # <<>> /\ ret[1] # Null) => Extends(heap[ret[1]], seeds)
    /\ (call = "returned" /\ result # Null) => Extends(heap[result], seeds)

(* C8 witness: a search seeded with one variable enters the second branch of
   its root. *)
C8_Witness ==
    /\ call = "getSolution" /\ seeds # EmptyObject
    /\ Len(stack) = 2 /\ stack[1].pc = "second" /\ Top.pc = "enter"

(* C9: getVariables returns every variable of the expression once, in the order
   of first occurrence in the pre-order, left-to-right traversal, and nothing
   that does not occur in it. *)
C9_ExtractionOrder ==
    call = "getVariables" =>
        LET leaves == Leaves(expr)
        IN  /\ Range(out) = Range(leaves)
            /\ Cardinality(Range(out)) = Len(out)
            /\ \A i, j \in 1..Len(out) :
                 i < j => FirstIndex(leaves, out[i]) < FirstIndex(leaves, out[j])

(* C9 witness: a variable occurs more than once and the order of first
   occurrence is not the alphabetical one. *)
C9_Witness ==
    /\ call = "getVariables" /\ Len(out) >= 2 /\ Len(Leaves(expr)) > Len(out)
    /\ out[1] = "b" /\ out[2] = "a"

(* C10: under a complete assignment expressionValue is TRUE or FALSE and is
   TRUE exactly when the expression (or variable) is true in two-valued logic:
   a variable has its bound value, And needs every operand, Or at least one,
   Not the negation. *)
C10_EvaluatorIsStandard ==
    (call = "expressionValue" /\ Complete(expr, asg)) =>
        /\ IsBit(out[2])
        /\ (out[2] = ValueTRUE) <=> Holds(out[1], asg)

(* C10 witness: an Or of two operands whose first is false evaluated to TRUE. *)
C10_Witness ==
    /\ call = "expressionValue" /\ Complete(expr, asg)
    /\ out[1][1] = "or" /\ Len(out[1][2]) = 2 /\ ~Holds(out[1][2][1], asg)
    /\ out[2] = ValueTRUE

----------------------------------------------------------------------------
(* the node kinds that occur in e *)
Kinds(e) == {n[1] : n \in Operands(e)}

(* C11: for all operands a and b and every complete assignment, implies(a, b)
   evaluates to what or(not(a), b) evaluates to, which is FALSE exactly when a
   is true and b is false, and xor(a, b) evaluates to TRUE exactly when one of
   a and b is true and the other is not; the expression either constructor
   builds has no node kind besides and, or, not and the kinds of its
   operands. *)
C11_DerivedConstructors ==
    call \in {"implies", "xor"} =>
        LET a == out[1]
            b == out[2]
            built == out[3]
            v == out[4]
        IN  /\ v \in {ValueFALSE, ValueTRUE}
            /\ call = "implies" =>
                    /\ v = expressionValue(or(<<not(a), b>>), asg)
                    /\ (v = ValueFALSE) <=> (Holds(a, asg) /\ ~Holds(b, asg))
            /\ call = "xor" => ((v = ValueTRUE) <=> (Holds(a, asg) # Holds(b, asg)))
            /\ Kinds(built) \subseteq Kinds(a) \cup Kinds(b) \cup {"and", "or", "not"}

(* implies was applied to a sub-expression and a variable and is false *)
C11_Witness ==
    /\ call = "implies" /\ ~isVariable(out[1]) /\ isVariable(out[2])
    /\ out[4] = ValueFALSE

----------------------------------------------------------------------------
(* C12: a malformed node anywhere inside an expression is never swallowed:
   under every assignment expressionValue on the expression throws, and so
   does every getSolution and every bruteForceAllSolutions call on it, so none
   of the three returns; on an expression without a malformed node nothing
   throws. *)
C12_MalformedNeverSwallowed ==
    IF "malformed" \in Kinds(expr)
    THEN call \notin {"expressionValue", "bruteForceAllSolutions", "returned"}
    ELSE call \notin {"threw", "expressionValueThrew", "bruteForceAllSolutionsThrew"}

----------------------------------------------------------------------------
(* C13: at every node where the strategy returned (variable, preferFirst) the
   branch explored first binds the variable to TRUE when preferFirst is true
   and to FALSE otherwise; the opposite branch is entered only after the first
   returned null; a non-null result of a branch is handed upward at once,
   without a further node being explored; a node with branches returns null
   only when its second branch returned null, the first having done so
   before. *)
C13_BranchOrder ==
    [][/\ \A d \in 1..Len(stack') :
            LET f == stack'[d]
                bound == heap'[f.newAssignments][f.unassignedVar]
            IN  /\ f.pc = "first" =>
                        bound = (IF f.checkTrueFirst THEN ValueTRUE ELSE ValueFALSE)
                /\ f.pc = "second" =>
                        bound = (IF f.checkTrueFirst THEN ValueFALSE ELSE ValueTRUE)
       /\ \A d \in 1..Len(stack) :
            (d <= Len(stack') /\ stack[d].pc = "first" /\ stack'[d].pc = "second")
                => ret = <<Null>>
       /\ (call = "getSolution" /\ ret # <<>> /\ ret[1] # Null) =>
            /\ log'.nodes = log.nodes
            /\ IF stack # <<>> THEN stack' = Pop /\ ret' = ret
                              ELSE result' = ret[1] /\ call' = "returned"
       /\ (stack # <<>> /\ Top.pc # "enter" /\ stack' = Pop /\ ret' = <<Null>>) =>
            Top.pc = "second" /\ ret = <<Null>>
      ]_vars

(* the root preferred TRUE, that branch returned null, and the FALSE branch has
   just handed back a solution *)
C13_Witness ==
    /\ Len(stack) = 1 /\ stack[1].pc = "second" /\ stack[1].checkTrueFirst
    /\ ret # <<>> /\ ret[1] # Null

----------------------------------------------------------------------------
(* C14: during getSolution, with the default strategy or a legal one, the
   evaluator is invoked only at a node where the strategy returned null, and
   at every such invocation the assignment binds every variable of the
   expression to TRUE or FALSE, none to UNSET: the step that leaves a node
   without branching, which is the one that evaluates, is taken on a complete
   assignment only. *)
C14_OnlyCompleteAssignmentsEvaluated ==
    [][(/\ call = "getSolution" /\ stack # <<>> /\ Top.pc = "enter"
        /\ Len(stack') < Len(stack))
            => /\ <<>> \in selectNextVar(getVariables(expr), heap[Top.assignments])
               /\ Complete(expr, heap[Top.assignments])
      ]_vars

----------------------------------------------------------------------------
(* C15: no search node mutates the assignment it received: over every step,
   the assignment object of every dpllSolution call that stays active keeps
   exactly its bindings, so a caller finds its own assignment as it was when a
   recursive call returns; the initialAssignments object the user passed is
   not changed by getSolution; each child receives an assignment that differs
   from its parent's in exactly one binding. *)
C15_ReceivedAssignmentUntouched ==
    [][/\ \A d \in 1..Len(stack) :
            (d <= Len(stack') /\ stack'[d].assignments = stack[d].assignments)
                => /\ stack[d].assignments \in DOMAIN heap'
                   /\ heap'[stack[d].assignments] = heap[stack[d].assignments]
       /\ call = "getSolution" => seeds' = seeds
       /\ \A d \in 2..Len(stack') :
            LET parent == heap'[stack'[d - 1].assignments]
                child == heap'[stack'[d].assignments]
            IN  /\ DOMAIN child = DOMAIN parent
                /\ Cardinality({k \in DOMAIN parent : child[k] # parent[k]}) = 1
      ]_vars

(* the root call of a seeded search is in its second branch and the call below
   it has returned *)
C15_Witness ==
    /\ seeds # EmptyObject
    /\ Len(stack) = 1 /\ Top.pc = "second" /\ ret # <<>>

----------------------------------------------------------------------------
(* C16: the two sibling branches never alias: the second branch receives an
   assignment object different from the one handed to the first branch, and
   an assignment object, once it exists and has been handed to the strategy or
   to a child, is never modified afterwards. *)
C16_SiblingsNeverAlias ==
    [][/\ \A d \in 1..Len(stack) :
            (d < Len(stack') /\ stack[d].pc = "first" /\ stack'[d].pc = "second")
                => stack'[d + 1].assignments # stack[d].newAssignments
       /\ \A ref \in DOMAIN heap : ref \in DOMAIN heap' => heap'[ref] = heap[ref]
      ]_vars

----------------------------------------------------------------------------
(* C17: for every expression with n distinct variables, any seeds and any
   legal strategy, getSolution terminates having visited at most
   2^(n+1) - 1 search nodes, with at most n variable decisions on a
   root-to-leaf path, one per variable that is Unset at the root.
   Termination: a running search can always take a step, every step of it
   raises SearchProgress, which the bound on the nodes keeps at or below
   2 * (2^(n+1) - 1), and the step after the root call's return is
   getSolution's own return. *)
NodeBound == 2 ^ (Cardinality(VarsOf(expr)) + 1) - 1
UnsetAtRoot == VarsOf(expr) \ DOMAIN seeds
SearchProgress == 2 * log.nodes - Len(stack)
(* some step of the search is enabled: the root call has returned to
   getSolution, or the innermost call is at its start with the strategy
   answering, or it waits for a branch that has returned *)
SearchCanStep ==
    IF stack = <<>> THEN ret # <<>>
    ELSE IF Top.pc = "enter"
         THEN selectNextVar(getVariables(expr), heap[Top.assignments]) # {}
         ELSE ret # <<>>

C17_BoundedSearch ==
    /\ [](call \in {"getSolution", "returned"} =>
            /\ log.nodes >= 1 /\ log.nodes <= NodeBound
            /\ Len(stack) - 1 <= Cardinality(UnsetAtRoot)
            /\ UnsetAtRoot \subseteq VarsOf(expr)
            /\ call = "getSolution" => SearchCanStep)
    /\ [][(call = "getSolution" /\ stack # <<>>) => SearchProgress' > SearchProgress]_vars
    /\ [][(call = "getSolution" /\ stack = <<>>) => call' = "returned"]_vars

(* the call on an expression of two variables returned after exactly
   2^(2+1) - 1 nodes: every leaf was visited *)
C17_Witness ==
    /\ call = "returned"
    /\ Cardinality(VarsOf(expr)) = 2 /\ log.nodes = NodeBound

----------------------------------------------------------------------------
(* whether list holds each variable of e once, in the order of first
   occurrence among the leaves of e *)
InExtractionOrder(list, e) ==
    LET leaves == Leaves(e)
    IN  /\ Range(list) = Range(leaves)
        /\ Cardinality(Range(list)) = Len(list)
        /\ \A i, j \in 1..Len(list) :
             i < j => FirstIndex(leaves, list[i]) < FirstIndex(leaves, list[j])
(* the dpllSolution calls that have not yet done anything *)
Entering == {d \in 1..Len(stack) : stack[d].pc = "enter"}

(* C18: the selection strategy is called exactly once per search node: every
   dpllSolution call that has begun its work has made one call, and one that
   has not begun has made none; each call receives all the variables of the
   expression in extraction order, the bound ones included, together with the
   assignment object of the node that makes the call. *)
C18_StrategyCalledOncePerNode ==
    /\ [](call \in {"getSolution", "returned"} =>
            log.calls = log.nodes - Cardinality(Entering))
    /\ [][(call = "getSolution" /\ log'.calls # log.calls) =>
            /\ log'.calls = log.calls + 1
            /\ stack # <<>> /\ Top.pc = "enter"
            /\ log'.assignments = Top.assignments
            /\ InExtractionOrder(log'.variables, expr)
          ]_vars

(* the third call of a run had an assignment with a bound and an unbound
   variable, and a list with both *)
C18_Witness ==
    /\ call = "getSolution" /\ log.calls = 3 /\ log.assignments \in DOMAIN heap
    /\ \E v, w \in Range(log.variables) :
            /\ heap[log.assignments][v] = ValueUNSET
            /\ heap[log.assignments][w] # ValueUNSET

----------------------------------------------------------------------------
(* C19: with no initialAssignments and the default strategy, whenever the
   expression is satisfiable (the enumeration is not empty) getSolution
   returns exactly the first element of bruteForceAllSolutions: the
   satisfying assignment that is smallest in variable order with FALSE before
   TRUE. *)
C19_DefaultSolutionIsFirstEnumerated ==
    (/\ call = "returned" /\ seeds = EmptyObject /\ strategy = "default"
     /\ bruteForceAllSolutions(expr) # <<>>)
        => /\ result # Null
           /\ heap[result] = bruteForceAllSolutions(expr)[1]
====
